---- MODULE Spec2Model ----
(***************************************************************************)
(* Transcript acquisition pipeline of content-flow-ai.                     *)
(*                                                                         *)
(* Two implementations of the extractor live in the repository:            *)
(*   - the strategy chain (src/unnamed/part_007): extractVideoId,          *)
(*     getVideoMetadata, extractTranscript with five strategies,           *)
(*     combineTranscript and extractYouTubeContent with placeholder        *)
(*     synthesis; it is modelled by the specification Spec;                *)
(*   - the single-strategy extractor the routes import                     *)
(*     (src/src/lib/youtube-extractor.ts); it is modelled by the           *)
(*     specification ModernSpec.                                           *)
(*                                                                         *)
(* A JavaScript string is modelled as a sequence of symbols; a symbol is a *)
(* single character or a whole word, and the string is the concatenation   *)
(* of its symbols.  Whitespace is always written as its own symbol.        *)
(***************************************************************************)
EXTENDS Integers, Sequences, FiniteSets, TLC

VARIABLES
    url,          \* the input string of extractYouTubeContent
    fpc,          \* position of extractYouTubeContent
    videoId,      \* const videoId = extractVideoId(url)
    metaCall,     \* state of the metadata fetch promise
    metadata,     \* the VideoMetadata value once the retriever has returned
    content,      \* the ExtractedContent the facade returned
    thrownError,  \* the message of the error the facade threw
    pc,           \* position of extractTranscript
    i,            \* loop index of extractTranscript (0-based, as in the code)
    lastError,    \* let lastError: Error | null (its message)
    inflight,     \* indices of the strategies whose promise is pending
    hung,         \* TRUE when the pending outbound call will never settle
    started,      \* history: the strategy indices in the order they were invoked
    failures,     \* history: the failure message recorded for each strategy tried
    delays,       \* history: number of 200 ms pauses that have been started
    rawResult,    \* history: what the strategy acted on last settled with (the chain
                  \* records it for the winning strategy only)
    transcript,   \* the segments extractTranscript returned
    chainError,   \* the message of the error extractTranscript threw
    metaResponse, \* history: what the metadata endpoint answered
    rpc,          \* position of the process-youtube POST handler
    userId,       \* userId of the request body ('' when absent)
    status,       \* HTTP status of the response (0 while there is none)
    reply,        \* which response body the handler sent
    calls,        \* history: number of extractYouTubeContent calls of the handler
    analysis,     \* let analysis = null, or the analyzer's result
    db,           \* the records created through prisma, in creation order
    fnArg,        \* argument of the pure function under test
    fnRes,        \* its result
    fnPc,         \* position of the pure-function harness
    inputUrl,     \* URLInput: const [url, setUrl] = useState('')
    validating,   \* URLInput: const [validating, setValidating]
    validation,   \* URLInput: const [validation, setValidation]
    inputError,   \* URLInput: const [error, setError]
    timers,       \* URLInput: the setTimeout callbacks that have not run yet
    requests,     \* URLInput: the validation fetches that have not settled yet
    edits,        \* history: number of change events of the input
    submitted,    \* history: the calls of onSubmit
    templates,    \* the rows of the Template table, in creation order
    posts         \* the template POST requests being handled

vars == <<url, fpc, videoId, metaCall, metadata, content, thrownError,
          pc, i, lastError, inflight, hung, started, failures, delays,
          rawResult, transcript, chainError, metaResponse,
          rpc, userId, status, reply, calls, analysis, db, fnArg, fnRes, fnPc,
          inputUrl, validating, validation, inputError, timers, requests,
          edits, submitted, templates, posts>>

facadeVars == <<url, fpc, videoId, metaCall, metadata, content, thrownError>>
chainVars == <<pc, i, lastError, inflight, hung, started, failures, delays,
               rawResult, transcript, chainError>>
routeVars == <<rpc, userId, status, reply, calls, analysis, db>>
fnVars == <<fnArg, fnRes, fnPc>>
inputVars == <<inputUrl, validating, validation, inputError, timers, requests,
               edits, submitted>>
templateVars == <<templates, posts>>

(***************************************************************************)
(* Bounds of the model.                                                    *)
(***************************************************************************)
MaxItems == 2      \* longest list a strategy's transport delivers
MaxTextLen == 2    \* longest segment text fed to the combiner on its own
MaxSegments == 2   \* longest segment list fed to the combiner on its own

(***************************************************************************)
(* Strings.                                                                *)
(***************************************************************************)
NoValue == <<"<none>">>          \* null / undefined / not yet assigned

Whitespace == {" ", "\n"}

RECURSIVE Words(_)
\* the words of w written with a single space between them
Words(w) ==
    IF Len(w) <= 1 THEN w
    ELSE <<Head(w), " ">> \o Words(Tail(w))

LowerWord(c) ==
    CASE c = "No" -> "no"
      [] c = "Transcript" -> "transcript"
      [] c = "Video" -> "video"
      [] c = "Failed" -> "failed"
      [] c = "All" -> "all"
      [] c = "Invalid" -> "invalid"
      [] c = "This" -> "this"
      [] c = "Please" -> "please"
      [] c = "API" -> "api"
      [] c = "oEmbed" -> "oembed"
      [] c = "Captions" -> "captions"
      [] OTHER -> c

\* mutant of toLowerCase: the message is compared as it is
toLowerCaseOmitted(s) == s

\* String.prototype.toLowerCase
toLowerCase(s) == [k \in 1..Len(s) |-> LowerWord(s[k])]

\* String.prototype.includes
includes(s, sub) ==
    \E k \in 0..(Len(s) - Len(sub)) :
        \A j \in 1..Len(sub) : s[k + j] = sub[j]

RECURSIVE TrimStart(_)
TrimStart(s) ==
    IF s # <<>> /\ Head(s) \in Whitespace THEN TrimStart(Tail(s)) ELSE s

RECURSIVE TrimEnd(_)
TrimEnd(s) ==
    IF s # <<>> /\ s[Len(s)] \in Whitespace
    THEN TrimEnd(SubSeq(s, 1, Len(s) - 1))
    ELSE s

\* String.prototype.trim
trim(s) == TrimEnd(TrimStart(s))

\* mutant of CollapseWhitespace: the g flag is missing, only the first run of
\* whitespace is replaced
CollapseFirstRun(s) ==
    IF \E k \in 1..Len(s) : s[k] \in Whitespace
    THEN LET a == CHOOSE k \in 1..Len(s) :
                      s[k] \in Whitespace /\ \A j \in 1..(k - 1) : s[j] \notin Whitespace
         IN  SubSeq(s, 1, a - 1) \o <<" ">> \o TrimStart(SubSeq(s, a, Len(s)))
    ELSE s

RECURSIVE CollapseWhitespace(_)
\* .replace(/\s+/g, ' ')
CollapseWhitespace(s) ==
    IF s = <<>> THEN <<>>
    ELSE IF Head(s) \in Whitespace
         THEN <<" ">> \o CollapseWhitespace(TrimStart(s))
         ELSE <<Head(s)>> \o CollapseWhitespace(Tail(s))

RECURSIVE join(_, _)
\* Array.prototype.join
join(texts, sep) ==
    IF texts = <<>> THEN <<>>
    ELSE IF Len(texts) = 1 THEN Head(texts)
    ELSE Head(texts) \o sep \o join(Tail(texts), sep)

(***************************************************************************)
(* Identifier resolver.                                                    *)
(***************************************************************************)
IdLength == 11

UrlPrefixes == {"youtube.com/watch?v=", "youtu.be/", "youtube.com/embed/"}

\* mutant of IdStop: the class is [^&\n]
IdStopAmpersandOnly == {"&", "\n"}

\* the characters [^&\n?#] stops at
IdStop == {"&", "\n", "?", "#"}

\* [a-zA-Z0-9_-]
IdChars == {"a", "b", "c", "D", "E", "F", "1", "2", "3", "4", "5", "_", "-"}

\* the longest prefix of s free of IdStop characters
RECURSIVE IdRun(_)
IdRun(s) ==
    IF s = <<>> \/ Head(s) \in IdStop THEN <<>>
    ELSE <<Head(s)>> \o IdRun(Tail(s))

\* positions where the first pattern matches: a prefix followed by at least
\* one character outside IdStop
PrefixMatches(u) ==
    {p \in 1..(Len(u) - 1) : u[p] \in UrlPrefixes /\ u[p + 1] \notin IdStop}

extractVideoId(u) ==
    IF PrefixMatches(u) # {}
    THEN LET p == CHOOSE q \in PrefixMatches(u) :
                      \A r \in PrefixMatches(u) : q <= r
         IN  IdRun(SubSeq(u, p + 1, Len(u)))
    ELSE IF Len(u) = IdLength /\ \A k \in 1..Len(u) : u[k] \in IdChars
    THEN u
    ELSE NoValue

isValidYouTubeUrl(u) == extractVideoId(u) # NoValue

SampleId == <<"a", "b", "c", "D", "E", "F", "1", "2", "3", "4", "5">>

\* the inputs the model feeds to extractYouTubeContent
Urls ==
    { <<"https://", "www.", "youtube.com/watch?v=">> \o SampleId \o <<"&", "t=1s">>,
      <<"https://", "youtu.be/">> \o SampleId,
      SampleId,
      <<"https://", "example.com/", "video">>,
      <<>> }

(***************************************************************************)
(* JavaScript values carried by transcript items.                          *)
(***************************************************************************)
Num(n) == [type |-> "number", n |-> n]
Undefined == [type |-> "undefined", n |-> 0]
Str(s) == [type |-> "string", s |-> s]
NoText == [type |-> "undefined", s |-> <<>>]

\* item.text || ''
TextOrEmpty(t) == IF t.type = "string" THEN t ELSE Str(<<>>)

\* parseFloat(item.offset?.toString() || '0')
ParseFloatOrZero(v) == IF v.type = "number" THEN v ELSE Num(0)

Item(t, o, d) == [text |-> t, offset |-> o, start |-> Undefined,
                  duration |-> d, dur |-> Undefined]

\* a caption text of more than 100 characters
LongText ==
    <<"In this talk we walk through the whole pipeline, from the first request to the final response, step by step.">>

\* what the transcript libraries deliver for one cue
LibItems ==
    { Item(Str(<<" ", "Hello", " ">>), Num(2500), Num(1500)),
      Item(Str(<<"to", " ", " ", "the", "\n", "show">>), Num(0), Num(2500)),
      Item(Str(<<>>), Num(4000), Num(1000)),
      Item(Str(<<" ">>), Num(5000), Undefined),
      Item(NoText, Undefined, Undefined),
      Item(Str(LongText), Num(9000), Num(4000)),
      [text |-> Str(<<"bye">>), offset |-> Undefined, start |-> Num(7),
       duration |-> Undefined, dur |-> Num(2)] }

\* sequences over S of length lo..hi
SeqsOf(S, lo, hi) == UNION {[1..n -> S] : n \in lo..hi}

\* what a library call resolves with when it delivers cues
LibResults == SeqsOf(LibItems, 1, MaxItems)

(***************************************************************************)
(* Failure messages.                                                       *)
(***************************************************************************)
MsgNoData == Words(<<"No", "transcript", "data", "returned", "from", "modern", "API">>)
MsgTranscriptDisabled == Words(<<"Transcript", "is", "disabled", "on", "this", "video">>)
MsgPageFetch == Words(<<"Failed", "to", "fetch", "video", "page:", "500">>)
MsgNoTracksPlayer == Words(<<"No", "caption", "tracks", "found", "in", "player", "response">>)
MsgAllConfigs == Words(<<"All", "youtube-transcript", "configurations", "failed">>)
MsgOEmbed == Words(<<"Video", "not", "accessible", "via", "oEmbed">>)
MsgNoEndpoints == Words(<<"No", "accessible", "caption", "endpoints", "found">>)
MsgNoTracksYtdl == Words(<<"No", "caption", "tracks", "in", "ytdl", "response">>)
MsgFetchFailed == Words(<<"fetch", "failed">>)
MsgCaptionsDisabled == Words(<<"Captions", "disabled", "for", "this", "video">>)
MsgNoCaptions == Words(<<"Video", "has", "no", "captions", "available">>)
MsgInvalidFormat == Words(<<"Invalid", "transcript", "format", "received">>)

(***************************************************************************)
(* The strategies of extractTranscript.  A strategy's promise settles with *)
(* Throw(message) or Return(list).                                         *)
(***************************************************************************)
NumStrategies == 5

Throw(m) == [kind |-> "throw", message |-> m, isArray |-> FALSE, items |-> <<>>]
Return(l) == [kind |-> "return", message |-> <<>>, isArray |-> TRUE, items |-> l]

\* the segment strategy 1 builds from a library item
ModernSegment(item) ==
    Item(TextOrEmpty(item.text), ParseFloatOrZero(item.offset),
         ParseFloatOrZero(item.duration))

\* Strategy 1: ModernYoutubeTranscript.fetchTranscript
Strategy1 ==
    { Throw(MsgNoData), Throw(MsgTranscriptDisabled), Throw(MsgCaptionsDisabled) }
    \cup { Return([k \in 1..Len(data) |-> ModernSegment(data[k])]) : data \in LibResults }

\* segments parseYouTubeCaptionXML delivers for the documents of the transports:
\* cleaned, non-empty text and numeric timing
ParsedSegments ==
    { Item(Str(<<"Hello">>), Num(2500), Num(1500)),
      Item(Str(<<"to", " ", "the", " ", "show">>), Num(0), Num(2500)) }

XmlResults == SeqsOf(ParsedSegments, 0, MaxItems)

\* Strategy 2: video page, caption track, parseYouTubeCaptionXML
Strategy2 ==
    { Throw(MsgPageFetch), Throw(MsgNoTracksPlayer), Throw(MsgCaptionsDisabled) }
    \cup { Return(l) : l \in XmlResults }

IsNonEmptyText(seg) == seg.text.s # <<>>

\* the segment strategy 3 builds from a library item
ProcessedSegment(item) ==
    Item(Str(trim(TextOrEmpty(item.text).s)),
         IF item.offset.type = "number" THEN item.offset
         ELSE IF item.start.type = "number" THEN Num(item.start.n * 1000)
         ELSE Num(0),
         IF item.duration.type = "number" THEN item.duration
         ELSE IF item.dur.type = "number" THEN Num(item.dur.n * 1000)
         ELSE Num(3000))

\* Strategy 3: YoutubeTranscript.fetchTranscript over the language configs;
\* every error of a config is swallowed
Strategy3 ==
    { Throw(MsgAllConfigs) }
    \cup { Return(SelectSeq([k \in 1..Len(data) |-> ProcessedSegment(data[k])],
                            IsNonEmptyText)) : data \in LibResults }

\* Strategy 4: oEmbed probe, then the timedtext endpoint
Strategy4 ==
    { Throw(MsgOEmbed), Throw(MsgNoEndpoints), Throw(MsgCaptionsDisabled) }
    \cup { Return(l) : l \in XmlResults }

\* Strategy 5: ytdl-core
Strategy5 ==
    { Throw(MsgNoTracksYtdl), Throw(MsgFetchFailed), Throw(MsgCaptionsDisabled) }
    \cup { Return(l) : l \in XmlResults }

\* strategies[k], k 0-based as in the code
strategies(k) ==
    CASE k = 0 -> Strategy1
      [] k = 1 -> Strategy2
      [] k = 2 -> Strategy3
      [] k = 3 -> Strategy4
      [] OTHER -> Strategy5

(***************************************************************************)
(* extractTranscript: what the loop body does with a settled strategy.     *)
(***************************************************************************)
\* item && typeof item.text === 'string' && item.text.trim().length > 0
IsValidSegment(item) == item.text.type = "string" /\ trim(item.text.s) # <<>>

\* transcript.filter(...) when the result is a non-empty array
validSegments(r) ==
    IF r.kind = "return" /\ r.isArray /\ Len(r.items) > 0
    THEN SelectSeq(r.items, IsValidSegment)
    ELSE <<>>

\* the object the final map builds for one valid segment
NormalizedSegment(item) ==
    [text |-> trim(item.text.s),
     offset |-> IF item.offset.type = "number" THEN item.offset.n
                ELSE IF item.start.type = "number" THEN item.start.n
                ELSE 0,
     duration |-> IF item.duration.type = "number" THEN item.duration.n
                  ELSE IF item.dur.type = "number" THEN item.dur.n
                  ELSE 0]

\* return validSegments.map(...)
NormalizedSegments(r) ==
    [k \in 1..Len(validSegments(r)) |-> NormalizedSegment(validSegments(r)[k])]

\* the attempt ends in the return statement of the try block
AttemptSucceeds(r) == Len(validSegments(r)) > 0

\* the message the catch block records for an attempt that does not return
AttemptError(r) ==
    IF r.kind = "throw" THEN r.message
    ELSE IF r.isArray /\ Len(r.items) = 0 THEN MsgNoCaptions
    ELSE MsgInvalidFormat

noCaptionsIndicators ==
    { Words(<<"no", "captions">>),
      Words(<<"no", "caption", "tracks">>),
      Words(<<"captions", "disabled">>),
      Words(<<"transcript", "is", "disabled">>) }

MatchesNoCaptions(m) ==
    \E indicator \in noCaptionsIndicators : includes(toLowerCase(m), indicator)

\* const isNoCaptions = noCaptionsIndicators.some(... lastError?.message ...)
isNoCaptions(err) == err # NoValue /\ MatchesNoCaptions(err)

ErrNoCaptions ==
    Words(<<"This", "video", "does", "not", "have", "captions/subtitles", "enabled.",
            "Please", "try", "a", "different", "video", "with", "captions", "or",
            "use", "manual", "transcript", "input.">>)

ErrExhausted(n) ==
    Words(<<"Failed", "to", "extract", "transcript", "from", "this", "video",
            "after", "trying", ToString(n), "different", "methods.",
            "This", "could", "be", "due", "to:">>)
    \o <<"\n">> \o Words(<<"*", "Video", "privacy", "restrictions">>)
    \o <<"\n">> \o Words(<<"*", "Captions", "in", "unsupported", "format">>)
    \o <<"\n">> \o Words(<<"*", "YouTube", "API", "limitations">>)
    \o <<"\n">> \o Words(<<"*", "Network", "connectivity", "issues">>)
    \o <<"\n", "\n">> \o Words(<<"Please", "try:">>)
    \o <<"\n">> \o Words(<<"1.", "A", "different", "video", "with", "confirmed", "captions">>)
    \o <<"\n">> \o Words(<<"2.", "Manual", "transcript", "input">>)
    \o <<"\n">> \o Words(<<"3.", "Refresh", "and", "try", "again">>)

\* mutant of FinalError: the message reports the last loop index
FinalErrorLoopIndex(err) ==
    IF isNoCaptions(err) THEN ErrNoCaptions ELSE ErrExhausted(NumStrategies - 1)

\* the error extractTranscript throws once the loop is over (the bullet
\* character of the technical message is written "*")
FinalError(err) ==
    IF isNoCaptions(err) THEN ErrNoCaptions ELSE ErrExhausted(NumStrategies)

(***************************************************************************)
(* Metadata retriever (strategy-chain extractor).                          *)
(***************************************************************************)
UnknownTitle == Words(<<"Unknown", "Title">>)
UnknownAuthor == Words(<<"Unknown", "Author">>)
Unknown == <<"Unknown">>

Absent == [present |-> FALSE, list |-> <<>>]
Present(l) == [present |-> TRUE, list |-> l]

NoMetadata == [title |-> NoValue, author |-> NoValue, duration |-> NoValue,
               thumbnails |-> Absent]

\* what the oEmbed endpoint can answer
OEmbedResponses ==
    { [kind |-> "networkError", title |-> <<>>, author_name |-> <<>>, thumbnail_url |-> <<>>],
      [kind |-> "notOk", title |-> <<>>, author_name |-> <<>>, thumbnail_url |-> <<>>],
      [kind |-> "parseError", title |-> <<>>, author_name |-> <<>>, thumbnail_url |-> <<>>],
      [kind |-> "ok", title |-> <<>>, author_name |-> <<>>, thumbnail_url |-> <<>>],
      [kind |-> "ok", title |-> Words(<<"My", "Talk">>), author_name |-> <<"Ada">>,
       thumbnail_url |-> <<"https://", "i.ytimg.com/", "hq.jpg">>] }

getVideoMetadata(resp) ==
    IF resp.kind = "ok"
    THEN [title |-> IF resp.title # <<>> THEN resp.title ELSE UnknownTitle,
          author |-> IF resp.author_name # <<>> THEN resp.author_name ELSE UnknownAuthor,
          duration |-> Unknown,
          thumbnails |-> Present(SelectSeq(<<resp.thumbnail_url>>, LAMBDA t : t # <<>>))]
    ELSE [title |-> UnknownTitle, author |-> UnknownAuthor, duration |-> Unknown,
          thumbnails |-> Absent]

(***************************************************************************)
(* Combiner and facade (strategy-chain extractor).                         *)
(***************************************************************************)
combineTranscript(segments) ==
    trim(CollapseWhitespace(
        join([k \in 1..Len(segments) |-> segments[k].text], <<" ">>)))

ErrInvalidUrl == Words(<<"Invalid", "YouTube", "URL", "format">>)

\* the fullTranscript the catch block of extractYouTubeContent synthesizes
Placeholder(errorMessage) ==
    <<"[Automatic", " ", "transcript", " ", "extraction", " ", "failed:", " ">>
    \o errorMessage
    \o <<"\n", "\n">>
    \o Words(<<"To", "get", "high-quality", "content", "generation,", "please:">>)
    \o <<"\n">> \o Words(<<"1.", "Go", "to", "the", "YouTube", "video">>)
    \o <<"\n">> \o Words(<<"2.", "Click", "the", "\"...\"", "menu", "below", "the", "video">>)
    \o <<" ", " ", "\n">> \o Words(<<"3.", "Select", "\"Show", "transcript\"">>)
    \o <<"\n">> \o Words(<<"4.", "Copy", "the", "full", "transcript">>)
    \o <<"\n">> \o Words(<<"5.", "Paste", "it", "in", "the", "manual", "input", "area", "below">>)
    \o <<"\n", "\n">>
    \o Words(<<"This", "will", "ensure", "the", "best", "possible", "content",
               "generation", "results.]">>)

WatchUrl(id) == <<"https://", "www.", "youtube.com/watch?v=">> \o id

NoContent == [videoId |-> NoValue, url |-> NoValue, metadata |-> NoMetadata,
              transcript |-> <<>>, fullTranscript |-> NoValue]

\* the value extractYouTubeContent returns after a successful extractTranscript
ContentOf(id, meta, segments) ==
    [videoId |-> id, url |-> WatchUrl(id), metadata |-> meta,
     transcript |-> segments, fullTranscript |-> combineTranscript(segments)]

\* the value extractYouTubeContent returns after extractTranscript threw
PlaceholderContent(id, meta, errorMessage) ==
    [videoId |-> id, url |-> WatchUrl(id), metadata |-> meta,
     transcript |-> <<[text |-> Placeholder(errorMessage), offset |-> 0, duration |-> 0]>>,
     fullTranscript |-> Placeholder(errorMessage)]

(***************************************************************************)
(* State machine of the strategy-chain extractor.                          *)
(***************************************************************************)
NoResult == [kind |-> "none", message |-> <<>>, isArray |-> FALSE, items |-> <<>>]

NoResponse == [kind |-> "none"]

\* extractYouTubeContent has been called and has not run yet
InitExtractor ==
    /\ fpc = "start"
    /\ videoId = NoValue
    /\ metaCall = "idle"
    /\ metaResponse = NoResponse
    /\ metadata = NoMetadata
    /\ content = NoContent
    /\ thrownError = NoValue
    /\ pc = "idle"
    /\ i = 0
    /\ lastError = NoValue
    /\ inflight = {}
    /\ hung = FALSE
    /\ started = <<>>
    /\ failures = <<>>
    /\ delays = 0
    /\ rawResult = NoResult
    /\ transcript = <<>>
    /\ chainError = NoValue

\* no request is being handled by the route
InitRouteOff ==
    /\ rpc = "off"
    /\ userId = <<>>
    /\ status = 0
    /\ reply = "none"
    /\ calls = 0
    /\ analysis = "null"
    /\ db = <<>>

\* the pure-function harness is not in use
InitFnOff ==
    /\ fnArg = NoValue
    /\ fnRes = NoValue
    /\ fnPc = "off"

\* useState<ValidationResult | null>(null)
NoValidation == [isNull |-> TRUE, isValid |-> FALSE, of |-> NoValue, error |-> NoValue]

\* URLInput has been mounted
InitInput ==
    /\ inputUrl = <<>>
    /\ validating = FALSE
    /\ validation = NoValidation
    /\ inputError = NoValue
    /\ timers = <<>>
    /\ requests = {}
    /\ edits = 0
    /\ submitted = <<>>

\* no template request is being handled
InitTemplatesOff ==
    /\ templates = <<>>
    /\ posts = <<>>

Init ==
    /\ url \in Urls
    /\ InitExtractor
    /\ InitInput
    /\ InitTemplatesOff
    /\ InitRouteOff
    /\ InitFnOff

\* extractYouTubeContent up to its first await: resolve the identifier, throw
\* or start the metadata fetch
ResolveUrl ==
    /\ fpc = "start"
    /\ videoId' = extractVideoId(url)
    /\ IF videoId' = NoValue
       THEN /\ fpc' = "thrown"
            /\ thrownError' = ErrInvalidUrl
            /\ UNCHANGED metaCall
       ELSE /\ fpc' = "metadata"
            /\ metaCall' = "pending"
            /\ UNCHANGED thrownError
    /\ UNCHANGED <<url, metadata, content>>
    /\ UNCHANGED chainVars
    /\ UNCHANGED metaResponse
    /\ UNCHANGED <<routeVars, fnVars, inputVars, templateVars>>

\* mutant of HasSuccessor: the loop bound is off by one
HasSuccessorOffByOne(k) == k < NumStrategies - 2

\* mutant of HasSuccessor: the pause is not guarded
HasSuccessorAlways(k) == TRUE

\* i < strategies.length - 1
HasSuccessor(k) == k < NumStrategies - 1

\* mutant of Invoke: the next strategy is fired without awaiting the current one
InvokeWithoutAwait(k) ==
    /\ pc' = "inflight"
    /\ i' = k
    /\ inflight' = inflight \cup {k} \cup ({k + 1} \cap (0..(NumStrategies - 1)))
    /\ started' = Append(started, k)
    /\ hung' \in BOOLEAN

\* the loop of extractTranscript invokes strategies[k] and awaits it
Invoke(k) ==
    /\ pc' = "inflight"
    /\ i' = k
    /\ inflight' = inflight \cup {k}
    /\ started' = Append(started, k)
    /\ hung' \in BOOLEAN

\* getVideoMetadata returns; extractTranscript is called and invokes the
\* first strategy
MetadataSettles ==
    /\ fpc = "metadata"
    /\ metaCall = "pending"
    /\ \E resp \in OEmbedResponses :
        /\ metaResponse' = resp
        /\ metadata' = getVideoMetadata(resp)
    /\ metaCall' = "done"
    /\ fpc' = "transcript"
    /\ Invoke(0)
    /\ UNCHANGED <<url, videoId, content, thrownError>>
    /\ UNCHANGED <<lastError, failures, delays, rawResult, transcript, chainError>>
    /\ UNCHANGED <<routeVars, fnVars, inputVars, templateVars>>

\* mutant of AttemptReturns: the return statement is missing, the result is
\* kept and the loop goes on
AttemptReturnsContinues ==
    /\ pc = "inflight"
    /\ ~hung
    /\ \E r \in strategies(i) :
        /\ AttemptSucceeds(r)
        /\ rawResult' = r
        /\ transcript' = NormalizedSegments(r)
    /\ pc' = "delay"
    /\ inflight' = inflight \ {i}
    /\ UNCHANGED facadeVars
    /\ UNCHANGED <<i, lastError, hung, started, failures, delays, chainError>>
    /\ UNCHANGED metaResponse
    /\ UNCHANGED <<routeVars, fnVars, inputVars, templateVars>>

\* a strategy resolves with at least one valid segment: extractTranscript
\* returns and extractYouTubeContent returns the combined content
AttemptReturns ==
    /\ pc = "inflight"
    /\ ~hung
    /\ \E r \in strategies(i) :
        /\ AttemptSucceeds(r)
        /\ rawResult' = r
        /\ transcript' = NormalizedSegments(r)
        /\ content' = ContentOf(videoId, metadata, NormalizedSegments(r))
    /\ pc' = "returned"
    /\ inflight' = inflight \ {i}
    /\ fpc' = "returned"
    /\ UNCHANGED <<url, videoId, metaCall, metadata, thrownError>>
    /\ UNCHANGED <<i, lastError, hung, started, failures, delays, chainError>>
    /\ UNCHANGED metaResponse
    /\ UNCHANGED <<routeVars, fnVars, inputVars, templateVars>>

\* mutant of AttemptFails: the try block is missing, an exception of the
\* strategy ends extractTranscript
AttemptFailsRethrows ==
    /\ pc = "inflight"
    /\ ~hung
    /\ HasSuccessor(i)
    /\ \E r \in strategies(i) :
        /\ ~AttemptSucceeds(r)
        /\ lastError' = AttemptError(r)
        /\ failures' = Append(failures, AttemptError(r))
        /\ IF r.kind = "throw"
           THEN /\ pc' = "thrown"
                /\ chainError' = r.message
                /\ content' = PlaceholderContent(videoId, metadata, r.message)
                /\ fpc' = "returned"
                /\ UNCHANGED delays
           ELSE /\ pc' = "delay"
                /\ delays' = delays + 1
                /\ UNCHANGED <<chainError, content, fpc>>
    /\ inflight' = inflight \ {i}
    /\ UNCHANGED <<url, videoId, metaCall, metadata, thrownError>>
    /\ UNCHANGED <<i, hung, started, rawResult, transcript>>
    /\ UNCHANGED metaResponse
    /\ UNCHANGED <<routeVars, fnVars, inputVars, templateVars>>

\* a strategy with a successor throws or resolves without a valid segment:
\* the catch block records the error and starts the 200 ms pause
AttemptFails ==
    /\ pc = "inflight"
    /\ ~hung
    /\ HasSuccessor(i)
    /\ \E r \in strategies(i) :
        /\ ~AttemptSucceeds(r)
        /\ lastError' = AttemptError(r)
        /\ failures' = Append(failures, AttemptError(r))
    /\ pc' = "delay"
    /\ delays' = delays + 1
    /\ inflight' = inflight \ {i}
    /\ UNCHANGED facadeVars
    /\ UNCHANGED <<i, hung, started, rawResult, transcript, chainError>>
    /\ UNCHANGED metaResponse
    /\ UNCHANGED <<routeVars, fnVars, inputVars, templateVars>>

\* the 200 ms timer fires: the loop advances and invokes the next strategy
DelayElapsed ==
    /\ pc = "delay"
    /\ Invoke(i + 1)
    /\ UNCHANGED facadeVars
    /\ UNCHANGED <<lastError, failures, delays, rawResult, transcript, chainError>>
    /\ UNCHANGED metaResponse
    /\ UNCHANGED <<routeVars, fnVars, inputVars, templateVars>>

\* the last strategy fails: extractTranscript throws the classified error
\* and extractYouTubeContent returns the placeholder content
ChainExhausted ==
    /\ pc = "inflight"
    /\ ~hung
    /\ ~HasSuccessor(i)
    /\ \E r \in strategies(i) :
        /\ ~AttemptSucceeds(r)
        /\ lastError' = AttemptError(r)
        /\ failures' = Append(failures, AttemptError(r))
        /\ chainError' = FinalError(AttemptError(r))
        /\ content' = PlaceholderContent(videoId, metadata, FinalError(AttemptError(r)))
    /\ pc' = "thrown"
    /\ inflight' = inflight \ {i}
    /\ fpc' = "returned"
    /\ UNCHANGED <<url, videoId, metaCall, metadata, thrownError>>
    /\ UNCHANGED <<i, hung, started, delays, rawResult, transcript>>
    /\ UNCHANGED metaResponse
    /\ UNCHANGED <<routeVars, fnVars, inputVars, templateVars>>

Next ==
    \/ ResolveUrl
    \/ MetadataSettles
    \/ AttemptReturns
    \/ AttemptFails
    \/ DelayElapsed
    \/ ChainExhausted

Spec == Init /\ [][Next]_vars

(***************************************************************************)
(* The single-strategy extractor (src/src/lib/youtube-extractor.ts).       *)
(***************************************************************************)
ErrInvalidUrlModern == Words(<<"Invalid", "YouTube", "URL", "provided">>)

\* what ModernYoutubeTranscript.fetchTranscript can settle with
ModernResponses ==
    { Throw(MsgTranscriptDisabled), Throw(MsgFetchFailed),
      [kind |-> "return", message |-> <<>>, isArray |-> FALSE, items |-> <<>>] }
    \cup { Return(l) : l \in SeqsOf(LibItems, 0, MaxItems) }

\* extractTranscript rejects: the library threw, or the guard on
\* transcriptData throws
ModernRejects(r) ==
    r.kind = "throw" \/ ~r.isArray \/ Len(r.items) = 0

ModernError(r) == IF r.kind = "throw" THEN r.message ELSE MsgNoData

\* const segments = transcriptData.map(...)
ModernSegments(r) ==
    [k \in 1..Len(r.items) |->
        [text |-> TextOrEmpty(r.items[k].text).s,
         offset |-> ParseFloatOrZero(r.items[k].offset).n,
         duration |-> ParseFloatOrZero(r.items[k].duration).n]]

\* what the watch page can answer to extractVideoMetadata
PageResponses ==
    { [kind |-> "networkError", title |-> <<>>, author |-> <<>>],
      [kind |-> "ok", title |-> <<>>, author |-> <<>>],
      [kind |-> "ok", title |-> Words(<<"My", "Talk">>), author |-> <<"Ada">>] }

ThumbnailOf(id) == <<"https://", "i.ytimg.com/vi/">> \o id \o <<"/hqdefault.jpg">>

extractVideoMetadata(id, resp) ==
    IF resp.kind = "ok"
    THEN [title |-> IF resp.title # <<>> THEN resp.title ELSE UnknownTitle,
          author |-> IF resp.author # <<>> THEN resp.author ELSE UnknownAuthor,
          duration |-> Unknown,
          thumbnails |-> Present(<<ThumbnailOf(id)>>)]
    ELSE [title |-> UnknownTitle, author |-> UnknownAuthor, duration |-> Unknown,
          thumbnails |-> Present(<<ThumbnailOf(id)>>)]

\* the value extractYouTubeContent returns
ModernContent(u, id, meta, segments) ==
    [videoId |-> id, url |-> u, metadata |-> meta, transcript |-> segments,
     fullTranscript |-> join([k \in 1..Len(segments) |-> segments[k].text], <<" ">>)]

\* mutant of ModernCall: Promise.all is started before the identifier is
\* checked
ModernCallFetchFirst ==
    /\ fpc = "start"
    /\ videoId' = extractVideoId(url)
    /\ metaCall' = "pending"
    /\ Invoke(0)
    /\ IF videoId' = NoValue
       THEN /\ fpc' = "thrown"
            /\ thrownError' = ErrInvalidUrlModern
       ELSE /\ fpc' = "awaiting"
            /\ UNCHANGED thrownError
    /\ UNCHANGED <<url, metadata, metaResponse, content>>
    /\ UNCHANGED <<lastError, failures, delays, rawResult, transcript, chainError>>

\* extractYouTubeContent up to its await: resolve the identifier, throw or
\* start both branches of Promise.all
ModernCall ==
    /\ fpc = "start"
    /\ videoId' = extractVideoId(url)
    /\ IF videoId' = NoValue
       THEN /\ fpc' = "thrown"
            /\ thrownError' = ErrInvalidUrlModern
            /\ UNCHANGED <<metaCall, pc, i, inflight, started, hung>>
       ELSE /\ fpc' = "awaiting"
            /\ metaCall' = "pending"
            /\ Invoke(0)
            /\ UNCHANGED thrownError
    /\ UNCHANGED <<url, metadata, metaResponse, content>>
    /\ UNCHANGED <<lastError, failures, delays, rawResult, transcript, chainError>>

\* extractYouTubeContent is called directly (test-transcript.js)
ModernResolveUrl ==
    /\ rpc = "off"
    /\ ModernCall
    /\ UNCHANGED <<routeVars, fnVars, inputVars, templateVars>>

\* extractVideoMetadata returns; Promise.all resolves when the transcript
\* branch has already resolved
ModernMetadataSettles ==
    /\ metaCall = "pending"
    /\ metaCall' = "done"
    /\ \E resp \in PageResponses :
        /\ metaResponse' = resp
        /\ metadata' = extractVideoMetadata(videoId, resp)
        /\ IF fpc = "awaiting" /\ pc = "returned"
           THEN /\ fpc' = "returned"
                /\ content' = ModernContent(url, videoId, metadata', transcript)
           ELSE UNCHANGED <<fpc, content>>
    /\ UNCHANGED <<url, videoId, thrownError>>
    /\ UNCHANGED chainVars
    /\ UNCHANGED <<routeVars, fnVars, inputVars, templateVars>>

\* fetchTranscript resolves with a non-empty list: extractTranscript returns
\* the mapped segments; Promise.all resolves when the metadata is already there
ModernTranscriptResolves ==
    /\ pc = "inflight"
    /\ ~hung
    /\ \E r \in ModernResponses :
        /\ ~ModernRejects(r)
        /\ rawResult' = r
        /\ transcript' = ModernSegments(r)
        /\ IF metaCall = "done"
           THEN /\ fpc' = "returned"
                /\ content' = ModernContent(url, videoId, metadata, ModernSegments(r))
           ELSE UNCHANGED <<fpc, content>>
    /\ pc' = "returned"
    /\ inflight' = inflight \ {i}
    /\ UNCHANGED <<url, videoId, metaCall, metadata, thrownError>>
    /\ UNCHANGED <<i, lastError, hung, started, failures, delays, chainError>>
    /\ UNCHANGED metaResponse
    /\ UNCHANGED <<routeVars, fnVars, inputVars, templateVars>>

\* fetchTranscript throws or delivers nothing: extractTranscript rejects,
\* Promise.all rejects and extractYouTubeContent throws
ModernTranscriptRejects ==
    /\ pc = "inflight"
    /\ ~hung
    /\ \E r \in ModernResponses :
        /\ ModernRejects(r)
        /\ rawResult' = r
        /\ failures' = Append(failures, ModernError(r))
        /\ chainError' = ModernError(r)
        /\ thrownError' = ModernError(r)
    /\ pc' = "thrown"
    /\ inflight' = inflight \ {i}
    /\ fpc' = "thrown"
    /\ UNCHANGED <<url, videoId, metaCall, metadata, content>>
    /\ UNCHANGED <<i, lastError, hung, started, delays, transcript>>
    /\ UNCHANGED metaResponse
    /\ UNCHANGED <<routeVars, fnVars, inputVars, templateVars>>

ModernNext ==
    \/ ModernResolveUrl
    \/ ModernMetadataSettles
    \/ ModernTranscriptResolves
    \/ ModernTranscriptRejects

ModernSpec == Init /\ [][ModernNext]_vars

(***************************************************************************)
(* POST handler of the process-youtube route; it calls the extractor of    *)
(* src/src/lib/youtube-extractor.ts.                                       *)
(***************************************************************************)
RECURSIVE StrLen(_)
\* String.prototype.length
StrLen(s) == IF s = <<>> THEN 0 ELSE Len(Head(s)) + StrLen(Tail(s))

AnalysisMinLength == 100

UserIds == {<<>>, <<"user-1">>}

\* a request is being handled, or no request is and the extractor is called
\* directly
RouteInit ==
    /\ url \in Urls
    /\ InitExtractor
    /\ InitInput
    /\ InitTemplatesOff
    /\ InitFnOff
    /\ \/ InitRouteOff
       \/ /\ rpc = "request"
          /\ userId \in UserIds
          /\ status = 0
          /\ reply = "none"
          /\ calls = 0
          /\ analysis = "null"
          /\ db = <<>>

Respond(code, body) ==
    /\ status' = code
    /\ reply' = body
    /\ rpc' = "responded"

\* if (userId) ... else return the success response
SaveOrRespond ==
    IF userId # <<>>
    THEN /\ rpc' = "savingProject"
         /\ UNCHANGED <<status, reply>>
    ELSE Respond(200, "success")

\* the url is missing or is not a YouTube URL: 400, nothing else happens
RouteRejects ==
    /\ rpc = "request"
    /\ url = <<>> \/ ~isValidYouTubeUrl(url)
    /\ Respond(400, IF url = <<>> THEN "urlRequired" ELSE "invalidFormat")
    /\ UNCHANGED <<userId, calls, analysis, db>>
    /\ UNCHANGED <<facadeVars, chainVars, metaResponse, fnVars>>
    /\ UNCHANGED <<inputVars, templateVars>>

\* the url is valid: await extractYouTubeContent(url)
RouteCallsExtractor ==
    /\ rpc = "request"
    /\ url # <<>>
    /\ isValidYouTubeUrl(url)
    /\ ModernCall
    /\ calls' = calls + 1
    /\ rpc' = "extracting"
    /\ UNCHANGED <<userId, status, reply, analysis, db>>
    /\ UNCHANGED <<fnVars, inputVars, templateVars>>

\* extractYouTubeContent threw: the catch block answers 400 or 500
RouteExtractionFailed ==
    /\ rpc = "extracting"
    /\ fpc = "thrown"
    /\ IF includes(thrownError, Words(<<"Transcript", "is", "disabled">>))
       THEN Respond(400, "transcriptDisabled")
       ELSE Respond(500, "failed")
    /\ UNCHANGED <<userId, calls, analysis, db>>
    /\ UNCHANGED <<facadeVars, chainVars, metaResponse, fnVars>>
    /\ UNCHANGED <<inputVars, templateVars>>

\* extractYouTubeContent returned: analyze a long transcript, else go on
RouteExtracted ==
    /\ rpc = "extracting"
    /\ fpc = "returned"
    /\ IF StrLen(content.fullTranscript) > AnalysisMinLength
       THEN /\ rpc' = "analyzing"
            /\ UNCHANGED <<status, reply>>
       ELSE SaveOrRespond
    /\ UNCHANGED <<userId, calls, analysis, db>>
    /\ UNCHANGED <<facadeVars, chainVars, metaResponse, fnVars>>
    /\ UNCHANGED <<inputVars, templateVars>>

\* analyzeTranscript settles; its failure is caught and leaves analysis null
RouteAnalyzed ==
    /\ rpc = "analyzing"
    /\ analysis' \in {"done", "null"}
    /\ SaveOrRespond
    /\ UNCHANGED <<userId, calls, db>>
    /\ UNCHANGED <<facadeVars, chainVars, metaResponse, fnVars>>
    /\ UNCHANGED <<inputVars, templateVars>>

ProjectRecord == [table |-> "project", userId |-> userId, sourceUrl |-> url]
UsageRecord == [table |-> "usage", userId |-> userId, sourceUrl |-> <<>>]

\* prisma.project.create resolves
RouteProjectCreated ==
    /\ rpc = "savingProject"
    /\ db' = Append(db, ProjectRecord)
    /\ rpc' = "savingUsage"
    /\ UNCHANGED <<userId, status, reply, calls, analysis>>
    /\ UNCHANGED <<facadeVars, chainVars, metaResponse, fnVars>>
    /\ UNCHANGED <<inputVars, templateVars>>

\* prisma.usage.create resolves: the success response is returned
RouteUsageCreated ==
    /\ rpc = "savingUsage"
    /\ db' = Append(db, UsageRecord)
    /\ Respond(200, "success")
    /\ UNCHANGED <<userId, calls, analysis>>
    /\ UNCHANGED <<facadeVars, chainVars, metaResponse, fnVars>>
    /\ UNCHANGED <<inputVars, templateVars>>

\* prisma.project.create or prisma.usage.create rejects: the catch block
\* answers 500
RouteSaveFailed ==
    /\ rpc \in {"savingProject", "savingUsage"}
    /\ Respond(500, "failed")
    /\ UNCHANGED <<userId, calls, analysis, db>>
    /\ UNCHANGED <<facadeVars, chainVars, metaResponse, fnVars>>
    /\ UNCHANGED <<inputVars, templateVars>>

RouteNext ==
    \/ RouteRejects
    \/ RouteCallsExtractor
    \/ ModernResolveUrl
    \/ ModernMetadataSettles
    \/ ModernTranscriptResolves
    \/ ModernTranscriptRejects
    \/ RouteExtractionFailed
    \/ RouteExtracted
    \/ RouteAnalyzed
    \/ RouteProjectCreated
    \/ RouteUsageCreated
    \/ RouteSaveFailed

RouteSpec == RouteInit /\ [][RouteNext]_vars

\* the event loop runs every continuation whose promise or timer has settled
LiveSpec == Spec /\ WF_vars(Next)

(***************************************************************************)
(* Properties of the strategy chain executor.                              *)
(***************************************************************************)
\* the failure messages a strategy can leave in the catch block
AttemptErrors(k) == {AttemptError(r) : r \in {q \in strategies(k) : ~AttemptSucceeds(q)}}

\* C1: the strategies run one at a time in the configured order: at most one
\* is in flight, the k-th invocation is strategy k, and a strategy is invoked
\* only when every strategy before it has a recorded failure and is no
\* longer in flight.
C1_StrictlySequential ==
    /\ Cardinality(inflight) <= 1
    /\ \A k \in 1..Len(started) : started[k] = k - 1
    /\ \A k \in 1..(Len(started) - 1) :
        /\ started[k] \notin inflight
        /\ k <= Len(failures)
        /\ failures[k] \in AttemptErrors(started[k])
    /\ Len(failures) <= Len(started)

\* the last strategy is in flight after every earlier one has failed
C1_Witness ==
    /\ Len(started) = NumStrategies
    /\ inflight = {NumStrategies - 1}
    /\ Len(failures) = NumStrategies - 1

\* the segments a raw result contributes: the trimmed texts of its items
\* with text, in order
TextsOf(r) ==
    LET withText == SelectSeq(r.items, LAMBDA it : it.text.type = "string"
                                                    /\ \E c \in 1..Len(it.text.s) :
                                                          it.text.s[c] \notin Whitespace)
    IN  [k \in 1..Len(withText) |-> trim(withText[k].text.s)]

\* C2: once a strategy has produced a valid segment no further strategy is
\* invoked, the chain stays returned, and the returned transcript holds
\* exactly the texts of that strategy's result.
C2_FirstSuccessWins ==
    /\ [][rawResult # NoResult =>
            /\ started' = started
            /\ transcript' = transcript
            /\ pc' = "returned"]_vars
    /\ [](rawResult # NoResult =>
            /\ rawResult \in strategies(started[Len(started)])
            /\ Len(failures) = Len(started) - 1
            /\ inflight = {}
            /\ Len(transcript) > 0
            /\ [k \in 1..Len(transcript) |-> transcript[k].text] = TextsOf(rawResult))

\* the third strategy wins after two failures
C2_Witness ==
    /\ pc = "returned"
    /\ Len(started) = 3
    /\ Len(failures) = 2
    /\ Len(transcript) = 2

\* C3: extractTranscript returns (an attempt counts as a success) only when
\* the result holds a segment whose text is non-empty after trimming.
C3_SuccessNeedsText ==
    pc = "returned" =>
        \E k \in 1..Len(rawResult.items) :
            /\ rawResult.items[k].text.type = "string"
            /\ trim(rawResult.items[k].text.s) # <<>>

\* C4: extractTranscript raises only after every configured strategy has
\* been attempted and has failed.
C4_RaisesOnlyWhenExhausted ==
    pc = "thrown" =>
        /\ Len(started) = NumStrategies
        /\ Len(failures) = NumStrategies
        /\ \A k \in 0..(NumStrategies - 1) : started[k + 1] = k
        /\ inflight = {}

\* all five strategies failed and extractTranscript threw
C4_Witness ==
    /\ pc = "thrown"
    /\ chainError # NoValue
    /\ Len(failures) = NumStrategies

SaysCaptionsDisabled(text) ==
    includes(text, Words(<<"does", "not", "have", "captions/subtitles", "enabled.">>))

\* C5: when the failure message of any strategy matches a no-captions
\* indicator, the aggregate error is the no-captions error and the
\* placeholder says captions are disabled.
C5_AnyNoCaptionsMessage ==
    (pc = "thrown" /\ \E k \in 1..Len(failures) : MatchesNoCaptions(failures[k])) =>
        /\ chainError = ErrNoCaptions
        /\ SaysCaptionsDisabled(content.fullTranscript)

\* C6: when every strategy failed and no recorded message matches a
\* no-captions indicator, the error is the technical one and names the
\* number of strategies tried.
C6_ExhaustedCarriesCount ==
    (pc = "thrown" /\ \A k \in 1..Len(failures) : ~MatchesNoCaptions(failures[k])) =>
        /\ chainError # ErrNoCaptions
        /\ Len(started) = NumStrategies
        /\ includes(chainError,
                    Words(<<"after", "trying", ToString(Len(started)), "different", "methods.">>))

\* the chain is exhausted without any no-captions message
C6_Witness ==
    /\ pc = "thrown"
    /\ Len(failures) = NumStrategies
    /\ \A k \in 1..Len(failures) : ~MatchesNoCaptions(failures[k])

Min(a, b) == IF a < b THEN a ELSE b

\* C7: a pause is started only by a failed attempt that has a successor:
\* the number of pauses is the number of failures, except that the failure
\* of the last strategy starts none, so an exhausted chain has paused
\* NumStrategies - 1 times and a success starts no pause.
C7_DelayOnlyBetweenFailures ==
    /\ [](delays = Min(Len(failures), NumStrategies - 1))
    /\ [](pc = "delay" => Len(failures) = Len(started) /\ i < NumStrategies - 1)
    /\ [](pc = "thrown" => delays = NumStrategies - 1)
    /\ [][delays' # delays =>
            /\ delays' = delays + 1
            /\ Len(failures') = Len(failures) + 1
            /\ pc' = "delay"
            /\ rawResult' = NoResult]_vars

\* five failures, four pauses
C7_Witness ==
    /\ pc = "thrown"
    /\ Len(failures) = NumStrategies
    /\ delays = NumStrategies - 1

\* C8: while a later strategy remains, an exception of the strategy in
\* flight does not end extractTranscript: the attempt either returns or its
\* error is recorded as that strategy's failure, nothing is thrown, and the
\* pause is followed by the next strategy.
C8_StrategyErrorsCaught ==
    /\ [][(pc = "inflight" /\ HasSuccessor(i) /\ pc' # "inflight") =>
            \/ pc' = "returned"
            \/ /\ pc' = "delay"
               /\ failures' = Append(failures, lastError')
               /\ lastError' \in AttemptErrors(i)
               /\ chainError' = NoValue
               /\ thrownError' = NoValue
               /\ fpc' = "transcript"]_vars
    /\ [][pc = "delay" => (pc' = "inflight" /\ i' = i + 1 /\ started' = Append(started, i + 1))]_vars
    /\ [](pc = "thrown" => ~HasSuccessor(i))

\* the exception of the first strategy is recorded and the second strategy
\* is in flight
C8_Witness ==
    /\ pc = "inflight"
    /\ i = 1
    /\ failures = <<MsgTranscriptDisabled>>
    /\ lastError = MsgTranscriptDisabled

\* C9: the transcript branch always terminates: a pending call that never
\* settles is abandoned and extractTranscript ends with a failure.
C9_AlwaysTerminates ==
    (pc = "inflight") ~> (pc \in {"returned", "thrown"})

\* C10: when an identifier is resolved extractYouTubeContent does not throw:
\* only the invalid-format error propagates.
C10_OnlyInvalidFormatPropagates ==
    fpc = "thrown" =>
        /\ videoId = NoValue
        /\ thrownError \in {ErrInvalidUrl, ErrInvalidUrlModern}

(***************************************************************************)
(* Properties of the facade, the combiner and the metadata retriever.      *)
(***************************************************************************)
\* C11: when every strategy failed, the returned content has an empty
\* transcript and a non-empty fullTranscript that contains the title and the
\* author of the metadata.
C11_PlaceholderEchoesMetadata ==
    (pc = "thrown" /\ fpc = "returned") =>
        /\ content.transcript = <<>>
        /\ content.fullTranscript # <<>>
        /\ includes(content.fullTranscript, content.metadata.title)
        /\ includes(content.fullTranscript, content.metadata.author)

\* strategies[k] rethrows the error of its transport; the third strategy
\* replaces every error by 'All youtube-transcript configurations failed'
Rethrows(k) == k # 2

GenericFailurePhrase == Words(<<"Failed", "to", "extract", "transcript">>)

\* C12: when every strategy that rethrows its transport's error fails with a
\* message containing "captions disabled", the fullTranscript says captions
\* are not enabled and does not carry the generic technical-failure phrase.
C12_CaptionsDisabledPlaceholder ==
    (/\ pc = "thrown"
     /\ fpc = "returned"
     /\ \A k \in 1..Len(failures) : Rethrows(k - 1) => failures[k] = MsgCaptionsDisabled) =>
        /\ SaysCaptionsDisabled(content.fullTranscript)
        /\ ~includes(content.fullTranscript, GenericFailurePhrase)

\* strategies 1, 2, 4 and 5 threw "Captions disabled ..." and the placeholder
\* was returned
C12_Witness ==
    /\ pc = "thrown"
    /\ fpc = "returned"
    /\ Len(failures) = NumStrategies
    /\ \A k \in 1..Len(failures) : Rethrows(k - 1) => failures[k] = MsgCaptionsDisabled
    /\ SaysCaptionsDisabled(content.fullTranscript)

\* C13: in every returned content with a non-empty transcript, fullTranscript
\* is the texts of the segments joined with single spaces, whitespace runs
\* collapsed, trimmed.
C13_FullTranscriptNormalized ==
    (fpc = "returned" /\ content.transcript # <<>>) =>
        content.fullTranscript =
            trim(CollapseWhitespace(
                join([k \in 1..Len(content.transcript) |-> content.transcript[k].text],
                     <<" ">>)))

\* C15: the segments extractTranscript returns are ordered by non-decreasing
\* offset.
C15_SortedByOffset ==
    pc = "returned" =>
        \A k \in 1..(Len(transcript) - 1) : transcript[k].offset <= transcript[k + 1].offset

\* C16: every segment of a transcript extractTranscript returned has
\* non-empty text.
C16_NoEmptySegmentText ==
    pc = "returned" =>
        \A k \in 1..Len(transcript) : trim(transcript[k].text) # <<>>

\* C17: after a transport failure, a non-OK response or a parse failure the
\* metadata has the placeholder fields and a present, empty thumbnail list.
C17_MetadataPlaceholder ==
    (metaCall = "done" /\ metaResponse.kind \in {"networkError", "notOk", "parseError"}) =>
        /\ metadata.title = UnknownTitle
        /\ metadata.author = UnknownAuthor
        /\ metadata.duration = Unknown
        /\ metadata.thumbnails = Present(<<>>)

\* C18: once the identifier is resolved both the metadata fetch and the
\* transcript chain are started before either is awaited, and the result is
\* produced only after both have completed.
C18_BothBranchesStarted ==
    /\ (videoId # NoValue => (metaCall # "idle" /\ pc # "idle"))
    /\ (fpc = "returned" => (metaCall = "done" /\ pc \in {"returned", "thrown"}))

(***************************************************************************)
(* combineTranscript on its own.                                           *)
(***************************************************************************)
TextChars == {" ", "\n", "a", "b"}

\* the segment lists fed to the combiner
CombineInputs ==
    SeqsOf({[text |-> t, offset |-> 0, duration |-> 0] :
                t \in SeqsOf(TextChars, 0, MaxTextLen)}, 1, MaxSegments)

NoCombined == [once |-> NoValue, again |-> NoValue, twice |-> NoValue]

CombineInit ==
    /\ url = <<>>
    /\ InitExtractor
    /\ InitInput
    /\ InitTemplatesOff
    /\ InitRouteOff
    /\ fnArg \in CombineInputs
    /\ fnRes = NoCombined
    /\ fnPc = "ready"

\* combineTranscript(segments)
CombineOnce ==
    /\ fnPc = "ready"
    /\ fnRes' = [NoCombined EXCEPT !.once = combineTranscript(fnArg)]
    /\ fnPc' = "combined"
    /\ UNCHANGED <<fnArg, facadeVars, chainVars, metaResponse, routeVars>>
    /\ UNCHANGED <<inputVars, templateVars>>

\* the combiner is run on its own output as a single segment, and on the
\* same segments a second time
CombineAgain ==
    /\ fnPc = "combined"
    /\ fnRes' = [fnRes EXCEPT
                    !.again = combineTranscript(
                                  <<[text |-> fnRes.once, offset |-> 0, duration |-> 0]>>),
                    !.twice = combineTranscript(fnArg)]
    /\ fnPc' = "recombined"
    /\ UNCHANGED <<fnArg, facadeVars, chainVars, metaResponse, routeVars>>
    /\ UNCHANGED <<inputVars, templateVars>>

CombineNext ==
    \/ CombineOnce
    \/ CombineAgain

CombineSpec == CombineInit /\ [][CombineNext]_vars

\* C14: the combiner is idempotent: combining the single segment whose text
\* is combineTranscript(s) gives combineTranscript(s) again, and so does
\* combining s a second time.
C14_CombinerIdempotent ==
    fnPc = "recombined" =>
        /\ fnRes.again = fnRes.once
        /\ fnRes.twice = fnRes.once

\* two segments whose join has two whitespace runs were combined to "a b"
\* and recombined
C14_Witness ==
    /\ fnPc = "recombined"
    /\ Len(fnArg) = 2
    /\ fnArg[1].text = <<"\n", "a">>
    /\ fnArg[2].text = <<"\n", "b">>
    /\ fnRes.again = <<"a", " ", "b">>

(***************************************************************************)
(* extractVideoId on its own.                                              *)
(***************************************************************************)
\* identifiers of 11 characters over [A-Za-z0-9_-]
TestIds ==
    {SampleId}
    \cup {[SampleId EXCEPT ![p] = c] : p \in 1..IdLength, c \in {"_", "-"}}

UrlSchemes == {<<>>, <<"https://">>, <<"https://", "www.">>}

\* what follows the identifier in a URL
UrlSuffixes ==
    { <<>>, <<"&", "t=1s">>, <<"?", "t=1">>, <<"#", "frag">>,
      <<"&", "list=PL1", "&", "index=2">> }

UrlForms == {"youtube.com/watch?v=", "youtu.be/", "youtube.com/embed/"}

\* the surface forms built from an identifier
ResolveInputs ==
    {[id |-> id, form |-> "bare", url |-> id] : id \in TestIds}
    \cup {[id |-> id, form |-> f, url |-> sch \o <<f>> \o id \o suf] :
            id \in TestIds, f \in UrlForms, sch \in UrlSchemes, suf \in UrlSuffixes}

ResolveInit ==
    /\ url = <<>>
    /\ InitExtractor
    /\ InitInput
    /\ InitTemplatesOff
    /\ InitRouteOff
    /\ fnArg \in ResolveInputs
    /\ fnRes = NoValue
    /\ fnPc = "ready"

\* extractVideoId(url)
Resolve ==
    /\ fnPc = "ready"
    /\ fnRes' = extractVideoId(fnArg.url)
    /\ fnPc' = "done"
    /\ UNCHANGED <<fnArg, facadeVars, chainVars, metaResponse, routeVars>>
    /\ UNCHANGED <<inputVars, templateVars>>

ResolveNext == Resolve

ResolveSpec == ResolveInit /\ [][ResolveNext]_vars

\* C20: for every identifier of 11 characters over [A-Za-z0-9_-],
\* extractVideoId returns the identifier for the watch URL, the short link,
\* the embed URL and the bare token, also when query parameters or a
\* fragment follow the identifier.
C20_ResolvesEveryForm ==
    fnPc = "done" => fnRes = fnArg.id

\* a short link followed by a query string was resolved to its identifier
C20_Witness ==
    /\ fnPc = "done"
    /\ fnArg.form = "youtu.be/"
    /\ includes(fnArg.url, <<"?", "t=1">>)
    /\ fnArg.id[1] = "-"
    /\ fnRes = fnArg.id

(***************************************************************************)
(* Fail-fast on an unresolvable input.                                     *)
(***************************************************************************)
\* C19: when the input resolves to no identifier nothing is sent out: no
\* metadata fetch and no strategy is started, extractYouTubeContent throws
\* the invalid-format error, and the route answers 400 without calling the
\* extractor.
C19_FailFastOnInvalidInput ==
    /\ (videoId = NoValue => (metaCall = "idle" /\ started = <<>> /\ inflight = {}))
    /\ ((fpc = "thrown" /\ ~isValidYouTubeUrl(url)) =>
            thrownError \in {ErrInvalidUrl, ErrInvalidUrlModern})
    /\ ((rpc = "responded" /\ ~isValidYouTubeUrl(url)) =>
            /\ status = 400
            /\ calls = 0
            /\ fpc = "start"
            /\ db = <<>>)

\* the route has answered 400 to a URL that is not a YouTube URL
C19_Witness ==
    /\ rpc = "responded"
    /\ url = <<"https://", "example.com/", "video">>
    /\ status = 400
    /\ reply = "invalidFormat"
    /\ calls = 0
    /\ metaCall = "idle"

(***************************************************************************)
(* extractVideoId on strings that carry no well-formed identifier.         *)
(***************************************************************************)
\* characters outside [a-zA-Z0-9_-] that the first pattern's class accepts
ForeignChars == {"!", ".", "%"}

\* identifiers that are too short or hold a foreign character
MalformedIds ==
    {SubSeq(SampleId, 1, n) : n \in 1..(IdLength - 1)}
    \cup {[SampleId EXCEPT ![p] = c] : p \in 1..IdLength, c \in ForeignChars}

\* the empty string, malformed bare tokens and URLs built on malformed
\* identifiers
MalformedInputs ==
    {[id |-> <<>>, form |-> "empty", url |-> <<>>]}
    \cup {[id |-> id, form |-> "bare", url |-> id] : id \in MalformedIds}
    \cup {[id |-> id, form |-> f, url |-> sch \o <<f>> \o id \o suf] :
            id \in MalformedIds, f \in UrlForms, sch \in UrlSchemes,
            suf \in UrlSuffixes}

MalformedInit ==
    /\ url = <<>>
    /\ InitExtractor
    /\ InitInput
    /\ InitTemplatesOff
    /\ InitRouteOff
    /\ fnArg \in MalformedInputs
    /\ fnRes = NoValue
    /\ fnPc = "ready"

MalformedSpec == MalformedInit /\ [][ResolveNext]_vars

\* C21: extractVideoId returns null for every string without a well-formed
\* identifier: the empty string, a token or URL identifier shorter than 11
\* characters, and one holding a character outside [A-Za-z0-9_-].
C21_RejectsMalformed ==
    fnPc = "done" => fnRes = NoValue

(***************************************************************************)
(* parseYouTubeCaptionXML.  A document is a sequence of symbols in which   *)
(* every '<', '>' and '"' of the markup is at a symbol boundary, so that   *)
(* each atom of the five patterns consumes whole symbols.                  *)
(***************************************************************************)
MaxCues == 2

Quote == "\""

Lit(t) == [op |-> "lit", tok |-> t, excl |-> {}, greedy |-> TRUE]
\* [^...]* (greedy) or .*? (lazy)
Star(excluded, g) == [op |-> "star", tok |-> "", excl |-> excluded, greedy |-> g]

NotGt == Star({">"}, TRUE)
NotQuote == Star({Quote}, TRUE)
NotLt == Star({"<text", "</text", "<b", "</b"}, TRUE)
DotLazy == Star({"\n"}, FALSE)

\* name="([^"]*)"
Attr(name) == <<Lit(name), Lit(Quote), NotQuote, Lit(Quote)>>

\* <text[^>]*start="([^"]*)"[^>]*dur="([^"]*)"[^>]*
TimedOpen(durName) ==
    <<Lit("<text"), NotGt>> \o Attr("start=") \o <<NotGt>> \o Attr(durName)
        \o <<NotGt>>

CloseTag == <<Lit("</text"), Lit(">")>>

\* the patterns array, in its order; groups holds the pattern positions of the
\* capture groups
patterns ==
    << [re |-> TimedOpen("dur=") \o <<Lit(">"), DotLazy>> \o CloseTag,
        groups |-> <<5, 10, 14>>],
       [re |-> TimedOpen("duration=") \o <<Lit(">"), DotLazy>> \o CloseTag,
        groups |-> <<5, 10, 14>>],
       [re |-> TimedOpen("dur=") \o <<Lit(">"), NotLt>>,
        groups |-> <<5, 10, 14>>],
       [re |-> <<Lit("<text"), NotGt, Lit(">"), DotLazy>> \o CloseTag,
        groups |-> <<4>>],
       [re |-> TimedOpen("dur=") \o Attr("text="),
        groups |-> <<5, 10, 15>>] >>

NoMatch == [ok |-> FALSE, at |-> <<>>]

RECURSIVE RunLength(_, _, _)
\* how many symbols from pos on lie outside excluded
RunLength(doc, pos, excluded) ==
    IF pos > Len(doc) \/ doc[pos] \in excluded THEN 0
    ELSE 1 + RunLength(doc, pos + 1, excluded)

RECURSIVE MatchFrom(_, _, _, _)
RECURSIVE StarFrom(_, _, _, _, _, _, _)
\* the backtracking match of re[k..] at pos: at[j] is where item k + j - 1
\* starts and the last entry of at is where the match ends
MatchFrom(re, doc, k, pos) ==
    IF k > Len(re) THEN [ok |-> TRUE, at |-> <<pos>>]
    ELSE IF re[k].op = "lit"
    THEN IF pos <= Len(doc) /\ doc[pos] = re[k].tok
         THEN LET rest == MatchFrom(re, doc, k + 1, pos + 1)
              IN  IF rest.ok THEN [ok |-> TRUE, at |-> <<pos>> \o rest.at]
                  ELSE NoMatch
         ELSE NoMatch
    ELSE LET run == RunLength(doc, pos, re[k].excl)
         IN  IF re[k].greedy THEN StarFrom(re, doc, k, pos, run, 0, -1)
             ELSE StarFrom(re, doc, k, pos, 0, run, 1)

\* the star re[k] takes n symbols if the rest matches then, else it tries
\* n + step, up to last: a greedy star gives back, a lazy one takes more
StarFrom(re, doc, k, pos, n, last, step) ==
    LET rest == MatchFrom(re, doc, k + 1, pos + n)
    IN  IF rest.ok THEN [ok |-> TRUE, at |-> <<pos>> \o rest.at]
        ELSE IF n = last THEN NoMatch
        ELSE StarFrom(re, doc, k, pos, n + step, last, step)

\* match[g]: the symbols capture group g consumed
Group(doc, pat, m, g) ==
    SubSeq(doc, m.at[pat.groups[g]], m.at[pat.groups[g] + 1] - 1)

RECURSIVE exec(_, _, _)
\* regex.exec(xmlContent) with lastIndex = from: the leftmost match
exec(pat, doc, from) ==
    IF from > Len(doc) THEN NoMatch
    ELSE LET m == MatchFrom(pat.re, doc, 1, from)
         IN  IF m.ok THEN m ELSE exec(pat, doc, from + 1)

RECURSIVE ReplaceAll(_, _, _)
\* text.replace(/from/g, to)
ReplaceAll(s, from, to) ==
    IF Len(s) < Len(from) THEN s
    ELSE IF SubSeq(s, 1, Len(from)) = from
    THEN to \o ReplaceAll(SubSeq(s, Len(from) + 1, Len(s)), from, to)
    ELSE <<Head(s)>> \o ReplaceAll(Tail(s), from, to)

\* the replacements of cleanXMLText, in its order; an entity is written as
\* '&' and the rest of its name
EntityReplacements ==
    << [from |-> <<"&", "amp;">>, to |-> <<"&">>],
       [from |-> <<"&", "lt;">>, to |-> <<"<">>],
       [from |-> <<"&", "gt;">>, to |-> <<">">>],
       [from |-> <<"&", "quot;">>, to |-> <<Quote>>],
       [from |-> <<"&", "#39;">>, to |-> <<"'">>],
       [from |-> <<"&", "apos;">>, to |-> <<"'">>],
       [from |-> <<"&", "#x27;">>, to |-> <<"'">>],
       [from |-> <<"&", "#x2F;">>, to |-> <<"/">>],
       [from |-> <<"\n">>, to |-> <<" ">>] >>

RECURSIVE ApplyReplacements(_, _)
ApplyReplacements(s, k) ==
    IF k > Len(EntityReplacements) THEN s
    ELSE ApplyReplacements(
             ReplaceAll(s, EntityReplacements[k].from, EntityReplacements[k].to),
             k + 1)

cleanXMLText(text) == trim(CollapseWhitespace(ApplyReplacements(text, 1)))

NaN == [type |-> "NaN", n |-> 0]

\* parseFloat(match[g]) * 1000
ParseFloatMs(v) ==
    CASE v = <<"0">> -> Num(0)
      [] v = <<"1.5">> -> Num(1500)
      [] v = <<"2">> -> Num(2000)
      [] v = <<"4">> -> Num(4000)
      [] v = <<"7">> -> Num(7000)
      [] OTHER -> NaN

\* mutant of KeepsText: the test text.length > 0 is left out
KeepsTextAlways(text) == TRUE

\* if (text.length > 0)
KeepsText(text) == text # <<>>

\* the segment the loop body builds from one match
MatchSegment(pat, doc, m, segments) ==
    IF Len(pat.groups) = 3
    THEN Item(Str(cleanXMLText(Group(doc, pat, m, 3))),
              ParseFloatMs(Group(doc, pat, m, 1)),
              ParseFloatMs(Group(doc, pat, m, 2)))
    ELSE Item(Str(cleanXMLText(Group(doc, pat, m, 1))),
              Num(Len(segments) * 3000), Num(3000))

RECURSIVE MatchLoop(_, _, _, _)
\* while ((match = regex.exec(xmlContent)) !== null) { ... }
MatchLoop(pat, doc, lastIndex, segments) ==
    LET m == exec(pat, doc, lastIndex)
    IN  IF ~m.ok THEN segments
        ELSE LET seg == MatchSegment(pat, doc, m, segments)
             IN  MatchLoop(pat, doc, m.at[Len(m.at)],
                           IF KeepsText(seg.text.s) THEN Append(segments, seg)
                           ELSE segments)

\* what pattern i (1-based) alone pushes onto an empty segments array
PatternSegments(doc, k) == MatchLoop(patterns[k], doc, 1, <<>>)

RECURSIVE TryPatterns(_, _)
\* the for loop: break at the first pattern that left segments non-empty
TryPatterns(doc, k) ==
    IF k > Len(patterns) THEN <<>>
    ELSE LET segments == PatternSegments(doc, k)
         IN  IF segments # <<>> THEN segments ELSE TryPatterns(doc, k + 1)

parseYouTubeCaptionXML(xmlContent) == TryPatterns(xmlContent, 1)

(***************************************************************************)
(* The caption documents the parser is run on.                             *)
(***************************************************************************)
\* the start attribute of the n-th cue of a document
StartOf(n) == IF n = 1 THEN "1.5" ELSE IF n = 2 THEN "4" ELSE "7"

TimedTag(n, durName) ==
    <<"<text", " ", "start=", Quote, StartOf(n), Quote,
      " ", durName, Quote, "2", Quote>>

\* a cue of the given shape, as the n-th cue of a document
Render(cue, n) ==
    CASE cue.shape = "dur" ->
            TimedTag(n, "dur=") \o <<">">> \o cue.text \o <<"</text", ">">>
      [] cue.shape = "duration" ->
            TimedTag(n, "duration=") \o <<">">> \o cue.text \o <<"</text", ">">>
      [] cue.shape = "bare" ->
            <<"<text", ">">> \o cue.text \o <<"</text", ">">>
      [] cue.shape = "attribute" ->
            TimedTag(n, "dur=") \o <<" ", "text=", Quote>> \o cue.text
                \o <<Quote, "/", ">">>
      [] cue.shape = "unclosed" ->
            TimedTag(n, "dur=") \o <<">">> \o cue.text
      [] OTHER -> \* a tag cut off inside its start attribute
            <<"<text", " ", "start=", Quote, StartOf(n)>> \o cue.text

\* cue texts: plain, with an entity, with an inline tag, with a line break,
\* blank and empty
CueTexts ==
    { <<"Hi">>,
      <<"R", "&", "amp;", "B">>,
      <<"<b", ">", "Hi", "</b", ">">>,
      <<"a", "\n", "b">>,
      <<" ">>,
      <<>> }

\* closed cues carry every text, the other shapes a plain or a blank one
Cues ==
    [shape : {"dur", "duration", "bare"}, text : CueTexts]
    \cup [shape : {"attribute", "unclosed"}, text : {<<"Hi">>, <<" ">>}]
    \cup [shape : {"truncated"}, text : {<<>>}]

RECURSIVE RenderAll(_, _)
RenderAll(cues, n) ==
    IF n > Len(cues) THEN <<>>
    ELSE Render(cues[n], n) \o RenderAll(cues, n + 1)

\* the documents of up to MaxCues cues
Documents ==
    {[cues |-> c, xml |-> RenderAll(c, 1)] : c \in SeqsOf(Cues, 0, MaxCues)}

ParseInit ==
    /\ url = <<>>
    /\ InitExtractor
    /\ InitInput
    /\ InitTemplatesOff
    /\ InitRouteOff
    /\ fnArg \in Documents
    /\ fnRes = NoValue
    /\ fnPc = "ready"

\* parseYouTubeCaptionXML(xmlContent)
Parse ==
    /\ fnPc = "ready"
    /\ fnRes' = parseYouTubeCaptionXML(fnArg.xml)
    /\ fnPc' = "done"
    /\ UNCHANGED <<fnArg, facadeVars, chainVars, metaResponse, routeVars>>
    /\ UNCHANGED <<inputVars, templateVars>>

ParseNext == Parse

ParseSpec == ParseInit /\ [][ParseNext]_vars

(***************************************************************************)
(* Properties of parseYouTubeCaptionXML.                                   *)
(***************************************************************************)
RECURSIVE MatchTexts(_, _, _)
\* the cleaned text of every match of a pattern, kept or not
MatchTexts(pat, doc, lastIndex) ==
    LET m == exec(pat, doc, lastIndex)
    IN  IF ~m.ok THEN <<>>
        ELSE <<cleanXMLText(Group(doc, pat, m, Len(pat.groups)))>>
                 \o MatchTexts(pat, doc, m.at[Len(m.at)])

\* no match of any pattern has text left after decoding
NoCueText(doc) ==
    \A k \in 1..Len(patterns) :
        LET texts == MatchTexts(patterns[k], doc, 1)
        IN  \A j \in 1..Len(texts) : texts[j] = <<>>

IsSegment(seg) ==
    /\ DOMAIN seg = {"text", "offset", "start", "duration", "dur"}
    /\ seg.text.type = "string"

\* C22: for every input, malformed or without cues, parseYouTubeCaptionXML
\* returns a sequence of segments, and the empty sequence when no pattern
\* yields a cue with non-empty decoded text.
C22_ParserTotal ==
    fnPc = "done" =>
        /\ DOMAIN fnRes = 1..Len(fnRes)
        /\ \A k \in 1..Len(fnRes) : IsSegment(fnRes[k])
        /\ NoCueText(fnArg.xml) => fnRes = <<>>

\* a document of a cut-off tag and a blank cue was parsed to the empty sequence
C22_Witness ==
    /\ fnPc = "done"
    /\ Len(fnArg.cues) = 2
    /\ fnArg.cues[1].shape = "truncated"
    /\ fnArg.cues[2] = [shape |-> "dur", text |-> <<" ">>]
    /\ fnRes = <<>>

\* the priority order the patterns are said to have: start+dur,
\* start+duration, the attribute-only forms, bare text last
StatedOrder == <<1, 2, 3, 5, 4>>

RECURSIVE FirstYield(_, _)
FirstYield(doc, order) ==
    IF order = <<>> THEN <<>>
    ELSE LET segments == PatternSegments(doc, Head(order))
         IN  IF segments # <<>> THEN segments ELSE FirstYield(doc, Tail(order))

\* C23: the output is that of one pattern, the first in the order start+dur,
\* start+duration, attribute-only, bare text that yields a segment; the
\* bare-text pattern is used only when no pattern reading timing attributes
\* yields a segment.
C23_HighestPriorityPattern ==
    fnPc = "done" => fnRes = FirstYield(fnArg.xml, StatedOrder)

RECURSIVE StripTags(_)
\* the text without its inline tags
StripTags(s) ==
    IF s = <<>> THEN <<>>
    ELSE IF Head(s) \in {"<b", "</b"} THEN StripTags(Tail(Tail(s)))
    ELSE <<Head(s)>> \o StripTags(Tail(s))

\* what a cue's text is said to become
DecodedText(text) == cleanXMLText(StripTags(text))

IsNonEmptyCue(cue) == DecodedText(cue.text) # <<>>

\* every cue of the document has the same one of the three written forms
IsCueList(cues) ==
    /\ cues # <<>>
    /\ \E sh \in {"dur", "duration", "bare"} :
           \A k \in 1..Len(cues) : cues[k].shape = sh

\* C24: for a cue list written with start/dur, with start/duration or as bare
\* text, parseYouTubeCaptionXML returns one segment per non-empty cue in
\* document order, its text entity-decoded, without inline tags, whitespace
\* collapsed and trimmed.
C24_OneSegmentPerCue ==
    (fnPc = "done" /\ IsCueList(fnArg.cues)) =>
        LET cues == SelectSeq(fnArg.cues, IsNonEmptyCue)
        IN  /\ Len(fnRes) = Len(cues)
            /\ \A k \in 1..Len(cues) :
                   fnRes[k].text.s = DecodedText(cues[k].text)

(***************************************************************************)
(* Two invocations of extractTranscript at once.  fnArg holds what the     *)
(* upstream answers each invocation's strategies, fnRes what each          *)
(* invocation settled with, fnPc the frames: where each invocation is and  *)
(* the variables of each scope.                                            *)
(***************************************************************************)
Invocations == {1, 2}

CaptionDocument(text) ==
    [cues |-> <<[shape |-> "dur", text |-> text]>>,
     xml |-> RenderAll(<<[shape |-> "dur", text |-> text]>>, 1)]

\* a strategy that fetched a caption document returns what the parser makes
\* of it
ParsedReturn(doc) == Return(parseYouTubeCaptionXML(doc.xml))

\* what the five transports answer to one invocation (strategy k at k + 1)
UpstreamProfiles ==
    { <<Throw(MsgNoData), Throw(MsgPageFetch), Throw(MsgAllConfigs),
        Throw(MsgOEmbed), Throw(MsgFetchFailed)>>,
      <<Throw(MsgCaptionsDisabled), Throw(MsgCaptionsDisabled), Throw(MsgAllConfigs),
        Throw(MsgNoEndpoints), Throw(MsgCaptionsDisabled)>>,
      <<Return(<<ModernSegment(Item(Str(<<"Hello">>), Num(2500), Num(1500)))>>),
        Throw(MsgPageFetch), Throw(MsgAllConfigs), Throw(MsgOEmbed),
        Throw(MsgFetchFailed)>>,
      <<Throw(MsgNoData), ParsedReturn(CaptionDocument(<<"R", "&", "amp;", "B">>)),
        Throw(MsgAllConfigs), Throw(MsgOEmbed), Throw(MsgFetchFailed)>>,
      <<Return(<<>>), ParsedReturn(CaptionDocument(<<" ">>)), Throw(MsgAllConfigs),
        ParsedReturn(CaptionDocument(<<"Hi">>)), Throw(MsgFetchFailed)>>,
      <<Throw(MsgTranscriptDisabled), Throw(MsgNoTracksPlayer), Throw(MsgAllConfigs),
        Throw(MsgNoEndpoints), ParsedReturn(CaptionDocument(<<"Hi">>))>> }

\* mutant of Scope: i and lastError are declared at module level
ScopeModule(r) == 1

\* the scope holding i and lastError of invocation r: they are declared inside
\* extractTranscript
Scope(r) == r

NoFrame == [pc |-> "start", running |-> 0]
NoScope == [i |-> 0, lastError |-> NoValue]

ConcurrentInit ==
    /\ url = <<>>
    /\ InitExtractor
    /\ InitInput
    /\ InitTemplatesOff
    /\ InitRouteOff
    /\ fnArg \in [Invocations -> UpstreamProfiles]
    /\ fnRes = [r \in Invocations |-> NoResult]
    /\ fnPc = [frames |-> [r \in Invocations |-> NoFrame],
               scopes |-> [r \in Invocations |-> NoScope]]

FrameOf(r) == fnPc.frames[r]
ScopeOf(r) == fnPc.scopes[Scope(r)]

\* the step of an invocation: its frame, its scope and its result change
CallStep(r, frame, scope, result) ==
    /\ fnPc' = [frames |-> [fnPc.frames EXCEPT ![r] = frame],
                scopes |-> [fnPc.scopes EXCEPT ![Scope(r)] = scope]]
    /\ fnRes' = [fnRes EXCEPT ![r] = result]
    /\ UNCHANGED <<fnArg, facadeVars, chainVars, metaResponse, routeVars>>
    /\ UNCHANGED <<inputVars, templateVars>>

\* extractTranscript is entered: lastError = null, i = 0, strategies[0]()
CallStarts(r) ==
    /\ FrameOf(r).pc = "start"
    /\ CallStep(r, [pc |-> "awaiting", running |-> 0], NoScope, fnRes[r])

\* the awaited strategy settled and the attempt returns the segments
CallReturns(r) ==
    /\ FrameOf(r).pc = "awaiting"
    /\ AttemptSucceeds(fnArg[r][FrameOf(r).running + 1])
    /\ CallStep(r, [FrameOf(r) EXCEPT !.pc = "returned"], ScopeOf(r),
                Return(NormalizedSegments(fnArg[r][FrameOf(r).running + 1])))

\* the awaited strategy settled and the attempt failed: the catch block
\* records the error and pauses, or the loop is over and the final error is
\* thrown
CallFails(r) ==
    /\ FrameOf(r).pc = "awaiting"
    /\ ~AttemptSucceeds(fnArg[r][FrameOf(r).running + 1])
    /\ LET err == AttemptError(fnArg[r][FrameOf(r).running + 1])
       IN  IF ScopeOf(r).i < NumStrategies - 1
           THEN CallStep(r, [FrameOf(r) EXCEPT !.pc = "pause"],
                         [ScopeOf(r) EXCEPT !.lastError = err], fnRes[r])
           ELSE CallStep(r, [FrameOf(r) EXCEPT !.pc = "thrown"],
                         [i |-> ScopeOf(r).i + 1, lastError |-> err],
                         Throw(FinalError(err)))

\* the 200 ms pause is over: i++, and the next strategy is invoked or the
\* loop is over
CallResumes(r) ==
    /\ FrameOf(r).pc = "pause"
    /\ IF ScopeOf(r).i + 1 < NumStrategies
       THEN CallStep(r, [pc |-> "awaiting", running |-> ScopeOf(r).i + 1],
                     [ScopeOf(r) EXCEPT !.i = ScopeOf(r).i + 1], fnRes[r])
       ELSE CallStep(r, [FrameOf(r) EXCEPT !.pc = "thrown"],
                     [ScopeOf(r) EXCEPT !.i = ScopeOf(r).i + 1],
                     Throw(FinalError(ScopeOf(r).lastError)))

ConcurrentNext ==
    \E r \in Invocations :
        \/ CallStarts(r)
        \/ CallReturns(r)
        \/ CallFails(r)
        \/ CallResumes(r)

ConcurrentSpec == ConcurrentInit /\ [][ConcurrentNext]_vars

RECURSIVE RunAlone(_, _, _)
\* what extractTranscript settles with when it is the only invocation
RunAlone(profile, k, err) ==
    IF k = NumStrategies THEN Throw(FinalError(err))
    ELSE IF AttemptSucceeds(profile[k + 1])
    THEN Return(NormalizedSegments(profile[k + 1]))
    ELSE RunAlone(profile, k + 1, AttemptError(profile[k + 1]))

\* C25: with the same input and the same upstream responses an invocation
\* settles with the same result whether it runs alone or interleaved with
\* another invocation.
C25_NoInterference ==
    \A r \in Invocations :
        FrameOf(r).pc \in {"returned", "thrown"} =>
            fnRes[r] = RunAlone(fnArg[r], 0, NoValue)

\* invocation 1 ran through all five strategies and threw the no-captions
\* error while invocation 2, given other responses, is waiting for its third
\* strategy
C25_Witness ==
    /\ FrameOf(1).pc = "thrown"
    /\ fnRes[1] = Throw(ErrNoCaptions)
    /\ FrameOf(2).pc = "awaiting"
    /\ FrameOf(2).running = 2
    /\ fnArg[2] # fnArg[1]

(***************************************************************************)
(* What the caller of the process-youtube route is told about a failure.   *)
(***************************************************************************)
\* the transcript failure is one the executor classifies as no-captions: the
\* error its loop body derives from what the transport settled with matches
\* an indicator
ClassifiedNoCaptions(r) == isNoCaptions(AttemptError(r))

MaxEdits == 3
MaxSubmits == 1

\* the values the user leaves in the input after a change
TypedUrls ==
    { <<>>,
      <<" ">>,
      <<"https://", "youtu.be/">> \o SampleId,
      <<"https://", "example.com/", "video">> }

ErrValidate == Words(<<"Failed", "to", "validate", "URL">>)
ErrRouteInvalid == Words(<<"Invalid", "YouTube", "URL", "format">>)
ErrRouteFailed == Words(<<"Failed", "to", "validate", "YouTube", "video">>)

\* what setValidation and setError receive for a settled validation fetch;
\* of (history) is the URL the fetch was made for
Validated(u) == [isNull |-> FALSE, isValid |-> TRUE, of |-> u, error |-> NoValue]
Invalidated(u, e) == [isNull |-> FALSE, isValid |-> FALSE, of |-> u, error |-> e]

\* the outcomes of fetch(`/api/process-youtube?url=...`): the GET handler
\* answers success or an error body, or the fetch itself fails
ValidationOutcomes(u) ==
    IF isValidYouTubeUrl(u)
    THEN {Validated(u), Invalidated(u, ErrRouteFailed), Invalidated(u, ErrValidate)}
    ELSE {Invalidated(u, ErrRouteInvalid), Invalidated(u, ErrValidate)}

\* the submit button: disabled={validating || !url.trim() || (validation !==
\* null && !validation.isValid)} (loading is the parent's and stays false)
SubmitEnabled ==
    /\ ~validating
    /\ trim(inputUrl) # <<>>
    /\ ~(~validation.isNull /\ ~validation.isValid)

\* handleUrlChange: setUrl and a new 500 ms timer; the function it returns
\* is not called by anyone (the input is disabled while validating)
handleUrlChange ==
    /\ ~validating
    /\ edits < MaxEdits
    /\ \E newUrl \in TypedUrls \ {inputUrl} :
        /\ inputUrl' = newUrl
        /\ timers' = Append(timers, [n |-> edits + 1, url |-> newUrl])
    /\ edits' = edits + 1
    /\ UNCHANGED <<validating, validation, inputError, requests, submitted>>
    /\ UNCHANGED <<facadeVars, chainVars, metaResponse, routeVars, fnVars>>
    /\ UNCHANGED templateVars

\* the oldest timer runs: validateUrl(newUrl) up to its fetch, or the reset
TimerFires ==
    /\ timers # <<>>
    /\ timers' = Tail(timers)
    /\ IF trim(Head(timers).url) # <<>>
       THEN /\ validating' = TRUE
            /\ inputError' = NoValue
            /\ requests' = requests \cup {Head(timers)}
            /\ UNCHANGED validation
       ELSE /\ validation' = NoValidation
            /\ inputError' = NoValue
            /\ UNCHANGED <<validating, requests>>
    /\ UNCHANGED <<inputUrl, edits, submitted>>
    /\ UNCHANGED <<facadeVars, chainVars, metaResponse, routeVars, fnVars>>
    /\ UNCHANGED templateVars

\* a validation fetch settles: the rest of validateUrl
FetchSettles ==
    /\ \E q \in requests :
        /\ requests' = requests \ {q}
        /\ \E v \in ValidationOutcomes(q.url) :
            /\ validation' = v
            /\ inputError' = IF v.isValid THEN inputError ELSE v.error
    /\ validating' = FALSE
    /\ UNCHANGED <<inputUrl, timers, edits, submitted>>
    /\ UNCHANGED <<facadeVars, chainVars, metaResponse, routeVars, fnVars>>
    /\ UNCHANGED templateVars

ErrEnterUrl == Words(<<"Please", "enter", "a", "YouTube", "URL">>)

\* handleSubmit, once the submit button can be pressed
handleSubmit ==
    /\ SubmitEnabled
    /\ Len(submitted) < MaxSubmits
    /\ IF trim(inputUrl) = <<>>
       THEN /\ inputError' = ErrEnterUrl
            /\ UNCHANGED submitted
       ELSE IF ~validation.isNull /\ ~validation.isValid
       THEN /\ inputError' = validation.error
            /\ UNCHANGED submitted
       ELSE /\ submitted' =
                 Append(submitted,
                        [url |-> inputUrl,
                         metadataOf |-> validation.of])
            /\ UNCHANGED inputError
    /\ UNCHANGED <<inputUrl, validating, validation, timers, requests, edits>>
    /\ UNCHANGED <<facadeVars, chainVars, metaResponse, routeVars, fnVars>>
    /\ UNCHANGED templateVars

InputInit ==
    /\ url = <<>>
    /\ InitExtractor
    /\ InitInput
    /\ InitTemplatesOff
    /\ InitRouteOff
    /\ InitFnOff

InputNext ==
    \/ handleUrlChange
    \/ TimerFires
    \/ FetchSettles
    \/ handleSubmit

InputSpec == InputInit /\ [][InputNext]_vars

\* C27: a change of the URL within 500 ms cancels the pending validation, so
\* every validation under way is for the URL now in the input, and the
\* validation result shown, which enables the submit button and whose
\* metadata is submitted, belongs to the URL now in the input.
C27_ValidationIsCurrent ==
    /\ \A q \in requests : q.url = inputUrl
    /\ ~validation.isNull => validation.of = inputUrl
    /\ \A k \in 1..Len(submitted) :
           submitted[k].metadataOf \in {NoValue, submitted[k].url}

(***************************************************************************)
(* The page: what it does with the content the extractor returned.         *)
(***************************************************************************)
\* '[No transcript available'
FallbackMarker == <<"[No", " ", "transcript", " ", "available">>

\* extractedContent.fullTranscript.includes('[No transcript available'): the
\* page shows the manual-transcript input instead of the text
ShowsManualInput(c) == includes(c.fullTranscript, FallbackMarker)

\* C28: every placeholder the extractor synthesizes on transcript failure is
\* recognised by the page's placeholder test, so the manual-transcript input
\* is shown instead of the placeholder text.
C28_PlaceholderRecognised ==
    (pc = "thrown" /\ fpc = "returned") => ShowsManualInput(content)

(***************************************************************************)
(* Persistence of the process-youtube POST handler.                        *)
(***************************************************************************)
\* C30: a request that ends in an error response leaves no project and no
\* usage record behind; a request with a userId that ends in success has
\* created one project record and then one usage record.
C30_AllOrNothing ==
    rpc = "responded" =>
        /\ status # 200 => db = <<>>
        /\ (status = 200 /\ userId # <<>>) => db = <<ProjectRecord, UsageRecord>>
        /\ (status = 200 /\ userId = <<>>) => db = <<>>

(***************************************************************************)
(* POST handler of the templates route and the Template table.             *)
(***************************************************************************)
MaxPosts == 2

supportedPlatforms == {"twitter", "linkedin", "instagram", "blog"}

\* the request bodies ('' stands for a missing field)
TemplateBodies ==
    { [name |-> "A", platform |-> "twitter", prompt |-> "p"],
      [name |-> "A", platform |-> "blog", prompt |-> "p"],
      [name |-> "B", platform |-> "twitter", prompt |-> "p"],
      [name |-> "", platform |-> "twitter", prompt |-> "p"],
      [name |-> "A", platform |-> "", prompt |-> "p"],
      [name |-> "A", platform |-> "twitter", prompt |-> ""],
      [name |-> "A", platform |-> "myspace", prompt |-> "p"] }

Row(body) == [name |-> body.name, platform |-> body.platform]

NewPost(body) == [pc |-> "start", body |-> body, status |-> 0, reply |-> "none"]

\* MaxPosts requests have arrived; the table is empty or holds one template
TemplateInit ==
    /\ url = <<>>
    /\ InitExtractor
    /\ InitRouteOff
    /\ InitFnOff
    /\ InitInput
    /\ templates \in {<<>>, <<Row([name |-> "A", platform |-> "twitter"])>>}
    /\ \E bodies \in [1..MaxPosts -> TemplateBodies] :
           posts = [r \in 1..MaxPosts |-> NewPost(bodies[r])]

Answer(r, code, body) ==
    posts' = [posts EXCEPT ![r].pc = "responded", ![r].status = code,
                           ![r].reply = body]

TemplateFrame ==
    /\ UNCHANGED <<facadeVars, chainVars, metaResponse, routeVars, fnVars>>
    /\ UNCHANGED inputVars

\* the body is validated: 400, or prisma.template.findFirst is awaited
PostValidates(r) ==
    /\ posts[r].pc = "start"
    /\ IF posts[r].body.name = "" THEN Answer(r, 400, "nameRequired")
       ELSE IF posts[r].body.platform = "" THEN Answer(r, 400, "platformRequired")
       ELSE IF posts[r].body.prompt = "" THEN Answer(r, 400, "promptRequired")
       ELSE IF posts[r].body.platform \notin supportedPlatforms
       THEN Answer(r, 400, "platformUnsupported")
       ELSE posts' = [posts EXCEPT ![r].pc = "finding"]
    /\ UNCHANGED templates
    /\ TemplateFrame

\* findFirst resolves: 400 when a template with the name and platform
\* exists, else prisma.template.create is awaited
PostFound(r) ==
    /\ posts[r].pc = "finding"
    /\ IF \E k \in 1..Len(templates) : templates[k] = Row(posts[r].body)
       THEN Answer(r, 400, "exists")
       ELSE posts' = [posts EXCEPT ![r].pc = "creating"]
    /\ UNCHANGED templates
    /\ TemplateFrame

\* create resolves: the row is stored and the success response returned
PostCreated(r) ==
    /\ posts[r].pc = "creating"
    /\ templates' = Append(templates, Row(posts[r].body))
    /\ Answer(r, 200, "success")
    /\ TemplateFrame

\* findFirst or create rejects: the catch block answers 500
PostFails(r) ==
    /\ posts[r].pc \in {"finding", "creating"}
    /\ Answer(r, 500, "failed")
    /\ UNCHANGED templates
    /\ TemplateFrame

TemplateNext ==
    \E r \in 1..MaxPosts :
        \/ PostValidates(r)
        \/ PostFound(r)
        \/ PostCreated(r)
        \/ PostFails(r)

TemplateSpec == TemplateInit /\ [][TemplateNext]_vars

\* C29: after any interleaving of template POST requests no two stored
\* templates have the same name and platform.
C29_UniqueNamePerPlatform ==
    \A a, b \in 1..Len(templates) : templates[a] = templates[b] => a = b

====
